---- MODULE Spec2Model ----
(***************************************************************************)
(* A model of the tk-framework-simple hooks:                               *)
(*   python/utils.py                  is_deprecated                        *)
(*   hooks/filter_out_deprecated.py   FilterPublishes.execute              *)
(*   hooks/maya/loader_actions_abc.py MayaActions, _hookup_shaders         *)
(*                                                                         *)
(* Python strings that the code only compares are TLA+ strings; strings    *)
(* the code takes apart (the host version, type names, node names) are     *)
(* sequences of one-character strings.  Python's None is the value None.   *)
(*                                                                         *)
(* Spec     : the hook entry points that compute a value from their        *)
(*            arguments (is_deprecated, FilterPublishes.execute,           *)
(*            generate_actions), one call at a time.                       *)
(* ExecSpec : one run of MayaActions.execute_action against a tracking     *)
(*            service and a host scene, one step per statement.            *)
(***************************************************************************)
EXTENDS Integers, Sequences, FiniteSets, TLC

VARIABLES
    \* ---- Spec: the value-returning hook entry points
    hpc,                  \* "idle" | "called"
    call,                 \* the entry point of the call in progress
    args,                 \* its arguments and the settings it read
    ret,                  \* its return value
    maya_ver,             \* what cmds.about(version=True) answers
    self_attrs,           \* the hook instance's attributes (_maya_major_version)
    \* ---- ExecSpec: one run of execute_action
    db,                   \* the tracking service: id -> PublishedFile record
    scene,                \* the host scene: script nodes and referenced nodes
    stack,                \* the active execute_action invocations, innermost last
    status,               \* "running" | "returned" | "raised" | "overflow"
    err,                  \* the exception that ended the run, or None
    host,                 \* the reference being worked on: loaded / locked
    hk,                   \* the locals of _create_reference / _hookup_shaders
    log                   \* every external call made, in order

hvars == <<hpc, call, args, ret, maya_ver, self_attrs>>
evars == <<db, scene, stack, status, err, host, hk, log>>
vars  == <<hvars, evars>>

None  == "<None>"

\* ------------------------------------------------------------------------
\* Bounds of the model
\* ------------------------------------------------------------------------
MaxLen     == 3      \* longest list of publishes handed to the filter hook
MaxActions == 3      \* longest list of requested actions
NumRecords == 2      \* PublishedFile records held by the tracking service
MaxDepth   == 3      \* nesting of execute_action at which find_one no longer fits on the stack

\* ------------------------------------------------------------------------
\* Python helpers
\* ------------------------------------------------------------------------
\* dict.get(key): the value, or None when the key is absent
Get(d, key) == IF key \in DOMAIN d THEN d[key] ELSE None

\* settings.retrieve(key, default) / app.get_setting(key, default)
Retrieve(store, key, default) == IF key \in DOMAIN store THEN store[key] ELSE default

\* every dictionary over a subset of keys
Dicts(keys, values) == UNION {[S -> values] : S \in SUBSET keys}

\* every list of at most n elements of S
SeqsUpTo(S, n) == UNION {[1..k -> S] : k \in 0..n}

\* ------------------------------------------------------------------------
\* python/utils.py
\* ------------------------------------------------------------------------
is_deprecated_CaseBlind(published_file) ==
    Get(published_file, "sg_status_list") \in {"dprctd", "DPRCTD"}

is_deprecated(published_file) ==
    Get(published_file, "sg_status_list") = "dprctd"

\* ------------------------------------------------------------------------
\* hooks/filter_out_deprecated.py
\* ------------------------------------------------------------------------
\* [publish for publish in publishes if not is_deprecated(publish["sg_publish"])]
RECURSIVE NotDeprecated(_)
NotDeprecated(publishes) ==
    IF publishes = <<>> THEN <<>>
    ELSE (IF ~ is_deprecated(Head(publishes)["sg_publish"])
          THEN <<Head(publishes)>> ELSE <<>>) \o NotDeprecated(Tail(publishes))

FilterPublishes_execute_Inverted(publishes, user_settings) ==
    LET show_deprecated == Retrieve(user_settings, "show_deprecated_files", FALSE)
    IN  IF show_deprecated THEN NotDeprecated(publishes) ELSE publishes

FilterPublishes_execute(publishes, user_settings) ==
    LET show_deprecated == Retrieve(user_settings, "show_deprecated_files", FALSE)
    IN  IF ~ show_deprecated THEN NotDeprecated(publishes) ELSE publishes

\* ------------------------------------------------------------------------
\* hooks/maya/loader_actions_abc.py: _get_maya_version
\* ------------------------------------------------------------------------
Digits == <<"0", "1", "2", "3", "4", "5", "6", "7", "8", "9">>

\* s.startswith(prefix)
StartsWith(s, prefix) ==
    /\ Len(s) >= Len(prefix)
    /\ SubSeq(s, 1, Len(prefix)) = prefix

\* s[n:]
DropFirst(s, n) == SubSeq(s, n + 1, Len(s))

\* s.split(sep)[0]: everything before the first sep, the whole of s without one
BeforeFirst(s, sep) ==
    IF \E i \in 1..Len(s) : s[i] = sep
    THEN LET first == CHOOSE i \in 1..Len(s) :
                          /\ s[i] = sep
                          /\ \A j \in 1..(i - 1) : s[j] # sep
         IN  SubSeq(s, 1, first - 1)
    ELSE s

\* s.isdigit()
IsDigit(s) == /\ Len(s) > 0
              /\ \A i \in 1..Len(s) : \E d \in 1..10 : Digits[d] = s[i]

DigitValue(c) == (CHOOSE d \in 1..10 : Digits[d] = c) - 1

\* int(s) of a string of digits
RECURSIVE ToInt(_)
ToInt(s) == IF s = <<>> THEN 0
            ELSE 10 * ToInt(SubSeq(s, 1, Len(s) - 1)) + DigitValue(s[Len(s)])

MayaPrefix == <<"M", "a", "y", "a", " ">>

\* the value the first call computes from cmds.about(version=True)
ParseMayaVersion(ver) ==
    LET stripped == IF StartsWith(ver, MayaPrefix)
                    THEN DropFirst(ver, Len(MayaPrefix)) ELSE ver
        major_version_number_str == BeforeFirst(BeforeFirst(stripped, " "), ".")
    IN  IF IsDigit(major_version_number_str)
        THEN ToInt(major_version_number_str) ELSE 0

\* the instance's attributes after the call: computed once, then kept
get_maya_version_attrs(attrs, ver) ==
    IF "_maya_major_version" \notin DOMAIN attrs
    THEN [a \in DOMAIN attrs \cup {"_maya_major_version"} |->
             IF a = "_maya_major_version" THEN ParseMayaVersion(ver) ELSE attrs[a]]
    ELSE attrs

\* return self._maya_major_version
get_maya_version(attrs, ver) == get_maya_version_attrs(attrs, ver)["_maya_major_version"]

\* ------------------------------------------------------------------------
\* hooks/maya/loader_actions_abc.py: generate_actions
\* ------------------------------------------------------------------------
UdimMinVersion == 2015

Descriptor(name, caption, description) ==
    [name |-> name, params |-> None, caption |-> caption, description |-> description]

ReferenceAction ==
    Descriptor("reference", "Create Reference",
               "This will add the item to the scene as a standard reference.")
ImportAction ==
    Descriptor("import", "Import into Scene",
               "This will import the item into the current scene.")
TextureNodeAction ==
    Descriptor("texture_node", "Create Texture Node",
               "Creates a file texture node for the selected item..")
UdimTextureNodeAction ==
    Descriptor("udim_texture_node", "Create Texture Node",
               "Creates a file texture node for the selected item..")

\* name in actions
In(name, actions) == \E i \in 1..Len(actions) : actions[i] = name

generate_actions_ImportUngated(sg_publish_data, actions, app_settings, version) ==
    LET deprecated_actions_disabled ==
            Retrieve(app_settings, "disable_deprecated_files_actions", FALSE)
        actions_disabled ==
            deprecated_actions_disabled /\ is_deprecated(sg_publish_data)
    IN  (IF In("reference", actions) /\ ~ actions_disabled
         THEN <<ReferenceAction>> ELSE <<>>)
        \o (IF In("import", actions)
            THEN <<ImportAction>> ELSE <<>>)
        \o (IF In("texture_node", actions)
            THEN <<TextureNodeAction>> ELSE <<>>)
        \o (IF In("udim_texture_node", actions) /\ version >= UdimMinVersion
            THEN <<UdimTextureNodeAction>> ELSE <<>>)

generate_actions_UdimStrict(sg_publish_data, actions, app_settings, version) ==
    LET deprecated_actions_disabled ==
            Retrieve(app_settings, "disable_deprecated_files_actions", FALSE)
        actions_disabled ==
            deprecated_actions_disabled /\ is_deprecated(sg_publish_data)
    IN  (IF In("reference", actions) /\ ~ actions_disabled
         THEN <<ReferenceAction>> ELSE <<>>)
        \o (IF In("import", actions) /\ ~ actions_disabled
            THEN <<ImportAction>> ELSE <<>>)
        \o (IF In("texture_node", actions)
            THEN <<TextureNodeAction>> ELSE <<>>)
        \o (IF In("udim_texture_node", actions) /\ version > UdimMinVersion
            THEN <<UdimTextureNodeAction>> ELSE <<>>)

generate_actions(sg_publish_data, actions, app_settings, version) ==
    LET deprecated_actions_disabled ==
            Retrieve(app_settings, "disable_deprecated_files_actions", FALSE)
        actions_disabled ==
            deprecated_actions_disabled /\ is_deprecated(sg_publish_data)
    IN  (IF In("reference", actions) /\ ~ actions_disabled
         THEN <<ReferenceAction>> ELSE <<>>)
        \o (IF In("import", actions) /\ ~ actions_disabled
            THEN <<ImportAction>> ELSE <<>>)
        \o (IF In("texture_node", actions)
            THEN <<TextureNodeAction>> ELSE <<>>)
        \o (IF In("udim_texture_node", actions) /\ version >= UdimMinVersion
            THEN <<UdimTextureNodeAction>> ELSE <<>>)

\* ------------------------------------------------------------------------
\* The inputs of Spec
\* ------------------------------------------------------------------------
StatusValues == {"dprctd", "ip", "DPRCTD", None}
CodeValues   == {"a"}

\* Shotgun entity dictionaries: the status and the code field, each optional
Entities ==
    {[f \in S |-> IF f = "sg_status_list" THEN st ELSE cd] :
        S \in SUBSET {"sg_status_list", "code"}, st \in StatusValues, cd \in CodeValues}

Wrappers == {[sg_publish |-> e] : e \in Entities}

UserSettings == Dicts({"show_deprecated_files"}, BOOLEAN)
AppSettings  == Dicts({"disable_deprecated_files_actions"}, BOOLEAN)

RecognizedNames == {"reference", "import", "texture_node", "udim_texture_node"}
ActionNames     == RecognizedNames \cup {"open"}

MayaVersions ==
    { <<"M","a","y","a"," ","2","0","1","5">>,
      <<"2","0","1","4">>,
      <<"2","0","1","6",".","5">>,
      <<"M","a","y","a"," ","2","0","1","3"," ","x","6","4">>,
      <<"P","r","e","v","i","e","w">>,
      <<>> }

\* ------------------------------------------------------------------------
\* Spec: one call at a time
\* ------------------------------------------------------------------------
ExecIdle ==
    /\ db = <<>>
    /\ scene = [scripts |-> <<>>, nodes |-> None]
    /\ stack = <<>>
    /\ status = "returned"
    /\ err = None
    /\ host = [loaded |-> FALSE, locked |-> FALSE]
    /\ hk = None
    /\ log = <<>>

Init ==
    /\ hpc = "idle"
    /\ call = None
    /\ args = None
    /\ ret = None
    /\ maya_ver \in MayaVersions
    /\ self_attrs = [a \in {} |-> 0]
    /\ ExecIdle

CallIsDeprecated ==
    /\ hpc = "idle"
    /\ \E published_file \in Entities :
          /\ args' = [published_file |-> published_file]
          /\ ret' = is_deprecated(published_file)
    /\ call' = "is_deprecated"
    /\ hpc' = "called"
    /\ UNCHANGED <<maya_ver, self_attrs, evars>>

CallFilterExecute ==
    /\ hpc = "idle"
    /\ \E publishes \in SeqsUpTo(Wrappers, MaxLen), user_settings \in UserSettings :
          /\ args' = [publishes |-> publishes, user_settings |-> user_settings]
          /\ ret' = FilterPublishes_execute(publishes, user_settings)
    /\ call' = "execute"
    /\ hpc' = "called"
    /\ UNCHANGED <<maya_ver, self_attrs, evars>>

CallGenerateActions ==
    /\ hpc = "idle"
    /\ \E sg_publish_data \in Entities, actions \in SeqsUpTo(ActionNames, MaxActions),
          app_settings \in AppSettings :
          LET asks    == In("udim_texture_node", actions)
              version == IF asks THEN get_maya_version(self_attrs, maya_ver) ELSE 0
          IN  /\ args' = [sg_publish_data |-> sg_publish_data, actions |-> actions,
                          app_settings |-> app_settings]
              /\ ret' = generate_actions(sg_publish_data, actions, app_settings, version)
              /\ self_attrs' = IF asks THEN get_maya_version_attrs(self_attrs, maya_ver)
                                ELSE self_attrs
    /\ call' = "generate_actions"
    /\ hpc' = "called"
    /\ UNCHANGED <<maya_ver, evars>>

Return ==
    /\ hpc = "called"
    /\ hpc' = "idle"
    /\ call' = None
    /\ args' = None
    /\ ret' = None
    /\ UNCHANGED <<maya_ver, self_attrs, evars>>

Next ==
    \/ CallIsDeprecated
    \/ CallFilterExecute
    \/ CallGenerateActions
    \/ Return

Spec == Init /\ [][Next]_vars

\* ------------------------------------------------------------------------
\* hooks/maya/loader_actions_abc.py: execute_action and its helpers
\* ------------------------------------------------------------------------
UpperCase == <<"A","B","C","D","E","F","G","H","I","J","K","L","M",
               "N","O","P","Q","R","S","T","U","V","W","X","Y","Z">>
LowerCase == <<"a","b","c","d","e","f","g","h","i","j","k","l","m",
               "n","o","p","q","r","s","t","u","v","w","x","y","z">>

LowerChar(c) == IF \E i \in 1..26 : UpperCase[i] = c
                THEN LowerCase[CHOOSE i \in 1..26 : UpperCase[i] = c]
                ELSE c

\* s.lower()
Lower(s) == [i \in 1..Len(s) |-> LowerChar(s[i])]

GroupLiteral == <<"g","r","o","u","p">>

IsGroup_CaseSensitive(sg_publish_data) ==
    sg_publish_data["published_file_type"]["name"] = GroupLiteral

\* sg_publish_data["published_file_type"]["name"].lower() == "group"
IsGroup(sg_publish_data) ==
    Lower(sg_publish_data["published_file_type"]["name"]) = GroupLiteral

\* shotgun.find_one("PublishedFile", [["id", "is", id]], fields): the record's
\* requested fields, with the type and id the service always returns
FindOne(id, fields) ==
    [f \in (fields \cap DOMAIN db[id]) \cup {"type", "id"} |-> db[id][f]]

\* sg_publish_data.keys()
Keys(sg_publish_data) == DOMAIN sg_publish_data

ChildrenInOrder_Reversed(child_data) ==
    [i \in 1..Len(child_data["sg_children"]) |->
        child_data["sg_children"][Len(child_data["sg_children"]) + 1 - i]]

\* for child in child_data["sg_children"]
ChildrenInOrder(child_data) == child_data["sg_children"]

\* self.get_publish_path(sg_publish_data): the path of the record
PublishPath(sg_publish_data) == sg_publish_data["id"]

NeedsConfirmation_Always(sg_publish_data) == TRUE

\* "not utils.is_deprecated(sg_publish_data) or self._confirm_...": the
\* dialog is reached only for a deprecated record
NeedsConfirmation(sg_publish_data) == is_deprecated(sg_publish_data)

\* box.clickedButton() == accept
confirm_action_on_deprecated(clicked) == clicked = "accept"

FileNotFound_Never(exists) == FALSE

\* if not os.path.exists(path): raise Exception("File not found on disk ...")
FileNotFound(exists) == ~ exists

FileNotFoundError == "File not found on disk"
RecursionError    == "maximum recursion depth exceeded"


\* --- _hookup_shaders ----------------------------------------------------
HookupPrefix == <<"S","H","A","D","E","R","_","H","O","O","K","U","P","_">>

\* node.replace(hookup_prefix, ""): every occurrence removed, left to right
RECURSIVE RemovePrefixes(_)
RemovePrefixes(s) ==
    IF s = <<>> THEN <<>>
    ELSE IF StartsWith(s, HookupPrefix)
         THEN RemovePrefixes(DropFirst(s, Len(HookupPrefix)))
         ELSE <<Head(s)>> \o RemovePrefixes(Tail(s))

\* shader_hookups after the first loop; a pattern "^" + base + "\d*" + "$" is
\* kept as its base.  A later script node with the same pattern wins.
RECURSIVE ShaderHookups(_, _)
ShaderHookups(scripts, acc) ==
    IF scripts = <<>> THEN acc
    ELSE LET node == Head(scripts)
         IN  IF ~ StartsWith(node.name, HookupPrefix)
             THEN ShaderHookups(Tail(scripts), acc)
             ELSE LET obj_pattern == RemovePrefixes(node.name)
                  IN  ShaderHookups(Tail(scripts),
                         [p \in DOMAIN acc \cup {obj_pattern} |->
                             IF p = obj_pattern THEN node.beforeScript ELSE acc[p]])

\* re.match("^" + base + "\d*" + "$", node, re.IGNORECASE)
ReMatch(base, node) ==
    /\ StartsWith(Lower(node), Lower(base))
    /\ \A i \in (Len(base) + 1)..Len(node) : \E d \in 1..10 : Digits[d] = node[i]

\* the script nodes the first loop queries: those named with the prefix
HookupNodes(scripts) ==
    LET Named(node) == StartsWith(node.name, HookupPrefix)
    IN  SelectSeq(scripts, Named)

\* cmds.referenceQuery(reference_node, nodes=True) or []
OrEmpty(nodes) == IF nodes = None THEN <<>> ELSE nodes

HookupBody_NoRelock ==
    << "file(unloadReference,force)", "setAttr(locked,False)", "file(loadReference)",
       "select", "hyperShade",
       "file(unloadReference)", "file(loadReference)" >>

\* the host commands issued for one matching node, lines 298-305
HookupBody ==
    << "file(unloadReference,force)", "setAttr(locked,False)", "file(loadReference)",
       "select", "hyperShade",
       "file(unloadReference)", "setAttr(locked,True)", "file(loadReference)" >>

\* what a host command does to the reference node
ApplyCmd(h, cmd) ==
    CASE cmd = "file(reference,lockReference)"  -> [loaded |-> TRUE, locked |-> TRUE]
      [] cmd = "file(unloadReference,force)"    -> [h EXCEPT !.loaded = FALSE]
      [] cmd = "file(unloadReference)"          -> [h EXCEPT !.loaded = FALSE]
      [] cmd = "file(loadReference)"            -> [h EXCEPT !.loaded = TRUE]
      [] cmd = "setAttr(locked,False)"          -> [h EXCEPT !.locked = FALSE]
      [] cmd = "setAttr(locked,True)"           -> [h EXCEPT !.locked = TRUE]
      [] OTHER                                  -> h

\* the host commands of _create_texture_node and _create_udim_texture_node
TextureNodeCmds == << "shadingNode(file)", "setAttr(fileTextureName)" >>
\* Python's truth of what _create_texture_node returns
Truthy(file_node) == file_node \notin {None, ""}

UdimTextureNodeCmds_Unguarded(file_node) ==
    TextureNodeCmds \o << "setAttr(uvTilingMode,3)", "mel.eval(generateUvTilePreview)" >>

UdimTextureNodeCmds(file_node) ==
    TextureNodeCmds \o
    (IF Truthy(file_node)
     THEN << "setAttr(uvTilingMode,3)", "mel.eval(generateUvTilePreview)" >>
     ELSE <<>>)

\* what cmds.shadingNode may answer
FileNodes == {"file1", "", None}

\* ------------------------------------------------------------------------
\* The inputs of ExecSpec
\* ------------------------------------------------------------------------
Ids == 1..NumRecords

GroupTypeNames == { <<"G","r","o","u","p">>, <<"g","r","o","u","p">> }
FileTypeName   == <<"M","a","y","a"," ","S","c","e","n","e">>

Link(id) == [type |-> "PublishedFile", id |-> id]

\* the values of a multi-entity field: lists of distinct records
ChildLists ==
    {c \in SeqsUpTo({Link(i) : i \in Ids}, NumRecords) :
        \A i, j \in 1..Len(c) : i # j => c[i] # c[j]}

PublishedFile(id, type_name, st, children) ==
    [type |-> "PublishedFile", id |-> id,
     published_file_type |-> [type |-> "PublishedFileType", name |-> type_name],
     sg_status_list |-> st, sg_children |-> children]

\* the ids of list c not yet in order, appended to it in the order of c
RECURSIVE AppendNew(_, _)
AppendNew(order, c) ==
    IF c = <<>> THEN order
    ELSE AppendNew(IF \E k \in 1..Len(order) : order[k] = Head(c)["id"]
                   THEN order ELSE Append(order, Head(c)["id"]),
                   Tail(c))

\* the records a run that starts at record 1 can query, in the order in
\* which it first meets them: record 1, then the children of every group
\* among them
RECURSIVE Discovered(_, _, _)
Discovered(d, order, pos) ==
    IF pos > Len(order) THEN order
    ELSE Discovered(d, AppendNew(order, d[order[pos]].children), pos + 1)

\* a tracking service whose group type is named g.  The code only hands
\* ids back to find_one, so one numbering stands for all: records are
\* numbered in the order the run first meets them.  A record no query of
\* the run can ask for is never read: it is kept in one form, a file in
\* progress.
Databases(g) ==
    {d \in [Ids -> [group : BOOLEAN, st : {"dprctd", "ip"}, children : ChildLists]] :
        /\ \A i \in Ids : /\ d[i].group => d[i].st = "ip"
                          /\ ~ d[i].group => d[i].children = <<>>
        /\ LET order == Discovered(d, <<1>>, 1)
           IN  /\ \A k \in 1..Len(order) : order[k] = k
               /\ \A i \in Ids \ (1..Len(order)) :
                     d[i] = [group |-> FALSE, st |-> "ip", children |-> <<>>]}

Materialize(d, g) ==
    [i \in Ids |-> PublishedFile(i, IF d[i].group THEN g ELSE FileTypeName,
                                 d[i].st, d[i].children)]

\* the fields the loader hands over with a publish
PublishFields == {"type", "id", "published_file_type", "sg_status_list"}

ScriptNode(name, script) == [name |-> name, beforeScript |-> script]

HookupScripts ==
    << ScriptNode(HookupPrefix \o <<"b","o","d","y">>, "blinn1"),
       ScriptNode(<<"u","i","C","f","g">>, "pass"),
       ScriptNode(HookupPrefix \o <<"b","o","d","y","1">>, "phong1"),
       ScriptNode(HookupPrefix \o HookupPrefix \o <<"b","o","d","y">>, "lambert2") >>

ReferencedNodes == << <<"B","o","d","y","1">>, <<"h","e","a","d">>, <<"b","o","d","y">> >>

EmptyScene == [scripts |-> <<>>, nodes |-> None]

Scenes ==
    { EmptyScene,
      [scripts |-> <<>>, nodes |-> ReferencedNodes],
      [scripts |-> HookupScripts, nodes |-> None],
      [scripts |-> HookupScripts, nodes |-> ReferencedNodes] }

ExecNames == RecognizedNames \cup {"open"}

\* ------------------------------------------------------------------------
\* ExecSpec: one run of execute_action
\* ------------------------------------------------------------------------
Frame(name, params, sg_publish_data, start) ==
    [name |-> name, params |-> params, data |-> sg_publish_data,
     pc |-> "start", children |-> <<>>, start |-> start, ran |-> None]

\* an external call made by the invocation at the top of the stack
Event(ev, arg) == [ev |-> ev, depth |-> Len(stack), arg |-> arg]

\* the entry of an invocation of execute_action, depth deep
Called(depth, name, params, sg_publish_data) ==
    [ev |-> "execute_action", depth |-> depth,
     arg |-> [name |-> name, params |-> params, data |-> sg_publish_data]]

Top == stack[Len(stack)]

SetTop(f) == [stack EXCEPT ![Len(stack)] = f]

Running(pc) == /\ status = "running"
               /\ stack # <<>>
               /\ Top.pc = pc

HooksIdle ==
    /\ hpc = "idle"
    /\ call = None
    /\ args = None
    /\ ret = None
    /\ maya_ver = <<>>
    /\ self_attrs = [a \in {} |-> 0]

ExecInit ==
    /\ HooksIdle
    /\ \E g \in GroupTypeNames : \E d \in Databases(g) : db = Materialize(d, g)
    /\ \E name \in ExecNames :
          LET sg_publish_data == [f \in PublishFields |-> db[1][f]]
          IN  /\ scene \in (IF name = "reference" THEN Scenes ELSE {EmptyScene})
              /\ stack = << Frame(name, None, sg_publish_data, 1) >>
              /\ log = << Called(1, name, None, sg_publish_data) >>
    /\ status = "running"
    /\ err = None
    /\ host = [loaded |-> FALSE, locked |-> FALSE]
    /\ hk = None

\* lines 126-131: a group fetches its children
FetchChildren ==
    /\ Running("start")
    /\ IsGroup(Top.data)
    /\ Len(stack) < MaxDepth
    /\ LET child_data == FindOne(Top.data["id"], {"sg_children"})
       IN  /\ stack' = SetTop([Top EXCEPT !.pc = "loop",
                                          !.children = ChildrenInOrder(child_data)])
           /\ log' = Append(log, Event("find_one",
                        [id |-> Top.data["id"], fields |-> {"sg_children"},
                         result |-> child_data]))
    /\ UNCHANGED <<db, scene, status, err, host, hk, hvars>>

\* lines 132-143: the next child is fetched and execute_action calls itself
ExecuteChild ==
    /\ Running("loop")
    /\ Top.children # <<>>
    /\ LET child == Head(Top.children)
           child_expanded == FindOne(child["id"], Keys(Top.data))
           parent == [Top EXCEPT !.children = Tail(Top.children)]
       IN  /\ stack' = Append(SetTop(parent),
                              Frame(Top.name, Top.params, child_expanded, Len(log) + 2))
           /\ log' = log \o
                 << Event("find_one", [id |-> child["id"], fields |-> Keys(Top.data),
                                       result |-> child_expanded]),
                    Called(Len(stack) + 1, Top.name, Top.params, child_expanded) >>
    /\ UNCHANGED <<db, scene, status, err, host, hk, hvars>>

\* line 127, one call too deep: the interpreter runs out of stack.  Every
\* nested execute_action stays on the stack of the interpreter, and of the
\* calls the hook makes the query of the tracking service is taken to be
\* the deepest: an invocation nested MaxDepth deep has been entered and,
\* for a file, still runs in full, but for a group its first call,
\* find_one, raises and nothing catches it.  Groups that do not contain
\* themselves nest at most NumRecords deep, and MaxDepth is larger, so
\* only a run that re-enters a group it is still executing gets here.
RecursionTooDeep ==
    /\ Running("start")
    /\ IsGroup(Top.data)
    /\ Len(stack) >= MaxDepth
    /\ status' = "overflow"
    /\ err' = RecursionError
    /\ UNCHANGED <<db, scene, stack, host, hk, log, hvars>>

\* line 132: the loop over the children is over
ChildrenDone ==
    /\ Running("loop")
    /\ Top.children = <<>>
    /\ stack' = SetTop([Top EXCEPT !.pc = "return"])
    /\ UNCHANGED <<db, scene, status, err, host, hk, log, hvars>>

\* line 146: anything but a group has its path resolved
ResolvePath ==
    /\ Running("start")
    /\ ~ IsGroup(Top.data)
    /\ stack' = SetTop([Top EXCEPT !.pc = "dispatch"])
    /\ log' = Append(log, Event("get_publish_path", PublishPath(Top.data)))
    /\ UNCHANGED <<db, scene, status, err, host, hk, hvars>>

Helper(name) == IF name = "reference" THEN "_create_reference" ELSE "_do_import"

\* lines 148-154, the record needs no confirmation: the helper is called
DispatchLoad ==
    /\ Running("dispatch")
    /\ Top.name \in {"reference", "import"}
    /\ ~ NeedsConfirmation(Top.data)
    /\ stack' = SetTop([Top EXCEPT !.pc = "load"])
    /\ log' = Append(log, Event(Helper(Top.name), PublishPath(Top.data)))
    /\ UNCHANGED <<db, scene, status, err, host, hk, hvars>>

\* lines 149/153 and 175-187: the record is deprecated, the dialog is built
\* and box.exec_() opens it
ShowDialog ==
    /\ Running("dispatch")
    /\ Top.name \in {"reference", "import"}
    /\ NeedsConfirmation(Top.data)
    /\ stack' = SetTop([Top EXCEPT !.pc = "dialog"])
    /\ log' = Append(log, Event("dialog", [action_name |-> Top.name]))
    /\ UNCHANGED <<db, scene, status, err, host, hk, hvars>>

\* line 187: box.exec_() runs the toolkit's event loop until the user
\* clicks; meanwhile the record the dialog is about may stop being
\* deprecated in the tracking service (whether the file is on disk is asked,
\* and answered, only at line 199/222)
RecordChangesWhileDialogOpen ==
    /\ Running("dialog")
    /\ db[Top.data["id"]]["sg_status_list"] = "dprctd"
    /\ db' = [db EXCEPT ![Top.data["id"]]["sg_status_list"] = "ip"]
    /\ UNCHANGED <<scene, stack, status, err, host, hk, log, hvars>>

\* lines 187-189 and 149-154: the user clicks; the helper is called when the
\* accept button was clicked
DialogClicked ==
    /\ Running("dialog")
    /\ \E clicked \in {"accept", "cancel"} :
          LET answered == Append(log, Event("clickedButton", [clicked |-> clicked]))
          IN  IF confirm_action_on_deprecated(clicked)
              THEN /\ stack' = SetTop([Top EXCEPT !.pc = "load"])
                   /\ log' = Append(answered, Event(Helper(Top.name), PublishPath(Top.data)))
              ELSE /\ stack' = SetTop([Top EXCEPT !.pc = "return"])
                   /\ log' = answered
    /\ UNCHANGED <<db, scene, status, err, host, hk, hvars>>

\* lines 199-200 and 222-223: the file is missing, the exception ends the run
RaiseFileNotFound ==
    /\ Running("load")
    /\ \E exists \in BOOLEAN :
          /\ FileNotFound(exists)
          /\ log' = Append(log, Event("os.path.exists",
                       [path |-> PublishPath(Top.data), exists |-> exists]))
    /\ status' = "raised"
    /\ err' = FileNotFoundError
    /\ UNCHANGED <<db, scene, stack, host, hk, hvars>>

\* lines 199-212 and 284-292: the reference is created, locked, and the
\* shader hookups of the scene are collected
CreateReference ==
    /\ Running("load")
    /\ Top.name = "reference"
    /\ \E exists \in BOOLEAN :
          /\ ~ FileNotFound(exists)
          /\ log' = log \o
                << Event("os.path.exists",
                         [path |-> PublishPath(Top.data), exists |-> exists]),
                   Event("cmds", "file(reference,lockReference)"),
                   Event("cmds", "referenceQuery(referenceNode)"),
                   Event("cmds", "ls(script)") >>
                \o [i \in 1..Len(HookupNodes(scene.scripts)) |->
                       Event("cmds", "scriptNode(query,beforeScript)")]
                \o << Event("cmds", "referenceQuery(nodes)") >>
    /\ host' = ApplyCmd(host, "file(reference,lockReference)")
    /\ hk' = [shader_hookups |-> ShaderHookups(scene.scripts, <<>>),
              rest |-> OrEmpty(scene.nodes),
              node |-> None, pats |-> {}, shader |-> None, body |-> <<>>]
    /\ stack' = SetTop([Top EXCEPT !.pc = "hookup"])
    /\ UNCHANGED <<db, scene, status, err, hvars>>

HookupBetweenMatches == /\ Running("hookup")
                        /\ hk.body = <<>>

\* line 294: the next referenced node
HookupNextNode ==
    /\ HookupBetweenMatches
    /\ hk.pats = {}
    /\ hk.rest # <<>>
    /\ hk' = [hk EXCEPT !.node = Head(hk.rest), !.rest = Tail(hk.rest),
                        !.pats = DOMAIN hk.shader_hookups]
    /\ UNCHANGED <<db, scene, stack, status, err, host, log, hvars>>

\* lines 295-296: the next pattern of the dictionary, in whatever order it
\* iterates, is matched against the node
HookupMatch ==
    /\ HookupBetweenMatches
    /\ \E obj_pattern \in hk.pats :
          hk' = [hk EXCEPT !.pats = hk.pats \ {obj_pattern},
                           !.shader = hk.shader_hookups[obj_pattern],
                           !.body = IF ReMatch(obj_pattern, hk.node)
                                    THEN HookupBody ELSE <<>>]
    /\ UNCHANGED <<db, scene, stack, status, err, host, log, hvars>>

\* lines 298-305, one host command at a time
HookupCommand ==
    /\ Running("hookup")
    /\ hk.body # <<>>
    /\ host' = ApplyCmd(host, Head(hk.body))
    /\ log' = Append(log, Event("cmds", Head(hk.body)))
    /\ hk' = [hk EXCEPT !.body = Tail(hk.body)]
    /\ UNCHANGED <<db, scene, stack, status, err, hvars>>

\* line 212: _hookup_shaders and _create_reference return
ReferenceDone ==
    /\ HookupBetweenMatches
    /\ hk.pats = {}
    /\ hk.rest = <<>>
    /\ hk' = None
    /\ stack' = SetTop([Top EXCEPT !.pc = "return", !.ran = "_create_reference"])
    /\ UNCHANGED <<db, scene, status, err, host, log, hvars>>

\* lines 222-232: the file is imported
DoImport ==
    /\ Running("load")
    /\ Top.name = "import"
    /\ \E exists \in BOOLEAN :
          /\ ~ FileNotFound(exists)
          /\ log' = log \o
                << Event("os.path.exists",
                         [path |-> PublishPath(Top.data), exists |-> exists]),
                   Event("cmds", "file(i,preserveReferences)") >>
    /\ stack' = SetTop([Top EXCEPT !.pc = "return", !.ran = "_do_import"])
    /\ UNCHANGED <<db, scene, status, err, host, hk, hvars>>

\* lines 156-157 and 242-244
CreateTextureNode ==
    /\ Running("dispatch")
    /\ Top.name = "texture_node"
    /\ log' = log \o [i \in 1..Len(TextureNodeCmds) |-> Event("cmds", TextureNodeCmds[i])]
    /\ stack' = SetTop([Top EXCEPT !.pc = "return", !.ran = "_create_texture_node"])
    /\ UNCHANGED <<db, scene, status, err, host, hk, hvars>>

\* lines 159-160 and 255-261
CreateUdimTextureNode ==
    /\ Running("dispatch")
    /\ Top.name = "udim_texture_node"
    /\ \E file_node \in FileNodes :
          log' = log \o [i \in 1..Len(UdimTextureNodeCmds(file_node)) |->
                            Event("cmds", UdimTextureNodeCmds(file_node)[i])]
    /\ stack' = SetTop([Top EXCEPT !.pc = "return", !.ran = "_create_udim_texture_node"])
    /\ UNCHANGED <<db, scene, status, err, host, hk, hvars>>

\* lines 148-160: none of the four names
NoSuchAction ==
    /\ Running("dispatch")
    /\ Top.name \notin RecognizedNames
    /\ stack' = SetTop([Top EXCEPT !.pc = "return"])
    /\ UNCHANGED <<db, scene, status, err, host, hk, log, hvars>>

\* execute_action returns to its caller
ReturnFromExecute ==
    /\ Running("return")
    /\ stack' = SubSeq(stack, 1, Len(stack) - 1)
    /\ status' = IF Len(stack) = 1 THEN "returned" ELSE status
    /\ UNCHANGED <<db, scene, err, host, hk, log, hvars>>

ExecNext ==
    \/ FetchChildren
    \/ ExecuteChild
    \/ RecursionTooDeep
    \/ ChildrenDone
    \/ ResolvePath
    \/ DispatchLoad
    \/ ShowDialog
    \/ RecordChangesWhileDialogOpen
    \/ DialogClicked
    \/ RaiseFileNotFound
    \/ CreateReference
    \/ HookupNextNode
    \/ HookupMatch
    \/ HookupCommand
    \/ ReferenceDone
    \/ DoImport
    \/ CreateTextureNode
    \/ CreateUdimTextureNode
    \/ NoSuchAction
    \/ ReturnFromExecute

ExecSpec == ExecInit /\ [][ExecNext]_vars

\* ------------------------------------------------------------------------
\* Claims about Spec
\* ------------------------------------------------------------------------
IsDeprecatedCalled   == hpc = "called" /\ call = "is_deprecated"
FilterCalled         == hpc = "called" /\ call = "execute"
GenerateCalled       == hpc = "called" /\ call = "generate_actions"

\* C1: is_deprecated(R) is true exactly when R has the field sg_status_list
\* and its value is the string 'dprctd'; any other value, and a record
\* without the field, give false (a boolean comes back, never an error).
C1_IsDeprecatedIff ==
    IsDeprecatedCalled =>
        LET R == args.published_file
        IN  /\ ret \in BOOLEAN
            /\ ret = TRUE  <=> ("sg_status_list" \in DOMAIN R /\ R["sg_status_list"] = "dprctd")
            /\ ("sg_status_list" \notin DOMAIN R) => ret = FALSE

\* C1 witness: the predicate has answered false for a record whose status
\* differs from the sentinel only in the case of its letters.
C1_Witness ==
    /\ IsDeprecatedCalled
    /\ "sg_status_list" \in DOMAIN args.published_file
    /\ args.published_file["sg_status_list"] = "DPRCTD"
    /\ ret = FALSE

\* the positions of L whose nested record does not carry the sentinel
KeptPositions(L) ==
    {j \in 1..Len(L) :
        ~ ("sg_status_list" \in DOMAIN L[j].sg_publish
           /\ L[j].sg_publish["sg_status_list"] = "dprctd")}

\* the i-th smallest element of a set of positions
Nth(S, i) == CHOOSE j \in S : Cardinality({k \in S : k <= j}) = i

\* C2: with the preference true the hook returns its input list unchanged;
\* with it false (or not set) it returns exactly the entries whose nested
\* record is not deprecated, in their original order, nothing added,
\* duplicated or altered.
C2_FilterKeepsExactlyNonDeprecated ==
    FilterCalled =>
        LET L == args.publishes
            P == IF "show_deprecated_files" \in DOMAIN args.user_settings
                 THEN args.user_settings["show_deprecated_files"] ELSE FALSE
            K == KeptPositions(L)
        IN  IF P THEN ret = L
            ELSE /\ Len(ret) = Cardinality(K)
                 /\ \A i \in 1..Len(ret) : ret[i] = L[Nth(K, i)]

\* C2 witness: a list with a deprecated entry between two others was
\* filtered with the preference false, and the two others came back.
C2_Witness ==
    /\ FilterCalled
    /\ args.user_settings = [k \in {"show_deprecated_files"} |-> FALSE]
    /\ Len(args.publishes) = 3
    /\ KeptPositions(args.publishes) = {1, 3}
    /\ args.publishes[1] # args.publishes[3]
    /\ ret = <<args.publishes[1], args.publishes[3]>>

\* the setting is true while the record is deprecated
DisabledForRecord ==
    /\ "disable_deprecated_files_actions" \in DOMAIN args.app_settings
    /\ args.app_settings["disable_deprecated_files_actions"]
    /\ "sg_status_list" \in DOMAIN args.sg_publish_data
    /\ args.sg_publish_data["sg_status_list"] = "dprctd"

Requested(name) == \E i \in 1..Len(args.actions) : args.actions[i] = name

ReturnedNames == [i \in 1..Len(ret) |-> ret[i].name]

Returned(name) == \E i \in 1..Len(ret) : ret[i].name = name

HostMajorVersion == ParseMayaVersion(maya_ver)

\* C3 as stated: every returned descriptor, whichever of the four names it
\* carries, was requested and is not returned when the setting is true and
\* the record is deprecated.
C3_AllFourGated ==
    GenerateCalled =>
        \A i \in 1..Len(ret) :
            /\ ret[i].name \in RecognizedNames
            /\ Requested(ret[i].name)
            /\ ~ DisabledForRecord

\* C3 amended: every returned descriptor carries a recognized, requested
\* name; reference and import are not returned when the setting is true and
\* the record is deprecated; texture_node and udim_texture_node are not
\* gated by the setting and are returned whenever requested
\* (udim_texture_node when the host major version is at least 2015).
C3_OnlyReferenceAndImportGated ==
    GenerateCalled =>
        /\ \A i \in 1..Len(ret) :
              /\ ret[i].name \in RecognizedNames
              /\ Requested(ret[i].name)
              /\ ret[i].name \in {"reference", "import"} => ~ DisabledForRecord
        /\ Requested("texture_node") => Returned("texture_node")
        /\ (Requested("udim_texture_node") /\ HostMajorVersion >= 2015)
              => Returned("udim_texture_node")

\* C3 witness: with the setting true and a deprecated record, all of
\* reference, import and texture_node were requested and only texture_node
\* came back.
C3_Witness ==
    /\ GenerateCalled
    /\ DisabledForRecord
    /\ Requested("reference") /\ Requested("import") /\ Requested("texture_node")
    /\ ReturnedNames = <<"texture_node">>

FixedOrder == <<"reference", "import", "texture_node", "udim_texture_node">>

\* C4: for a non-deprecated record the returned names are the requested
\* recognized names, once each (udim_texture_node only when the host major
\* version is at least 2015), in the order reference, import, texture_node,
\* udim_texture_node, whatever the order or repetition in the request.
C4_OnePerRequestedNameInFixedOrder ==
    (GenerateCalled /\ Get(args.sg_publish_data, "sg_status_list") # "dprctd") =>
        LET Wanted(n) == /\ Requested(n)
                         /\ n = "udim_texture_node" => HostMajorVersion >= 2015
        IN  ReturnedNames = SelectSeq(FixedOrder, Wanted)

\* C4 witness: texture_node then reference then reference again were
\* requested for a non-deprecated record and reference, texture_node came
\* back.
C4_Witness ==
    /\ GenerateCalled
    /\ Get(args.sg_publish_data, "sg_status_list") = "ip"
    /\ args.actions = <<"texture_node", "reference", "reference">>
    /\ ReturnedNames = <<"reference", "texture_node">>

\* C4 witness of the version gate: udim_texture_node was requested on a
\* host whose major version is exactly 2015 and was returned.
C4_WitnessUdim ==
    /\ GenerateCalled
    /\ HostMajorVersion = 2015
    /\ args.actions = <<"udim_texture_node">>
    /\ ReturnedNames = <<"udim_texture_node">>

\* C5: generate_actions returns at least one descriptor for each item of
\* the actions parameter.
C5_AtLeastOnePerItem ==
    GenerateCalled =>
        \A i \in 1..Len(args.actions) : Returned(args.actions[i])

\* ------------------------------------------------------------------------
\* Claims about ExecSpec
\* ------------------------------------------------------------------------
\* the spellings of "group", whatever the case of the letters used here
GroupSpellings == { <<"g","r","o","u","p">>, <<"G","r","o","u","p">> }

IsGroupRecord(f) == f.data["published_file_type"]["name"] \in GroupSpellings

Deprecated(f) == /\ "sg_status_list" \in DOMAIN f.data
                 /\ f.data["sg_status_list"] = "dprctd"

\* the positions of the log written since invocation f was entered
Since(f) == (f.start + 1)..Len(log)

HostCommands(f)  == {i \in Since(f) : log[i].ev = "cmds"}
Dialogs(f)       == {i \in Since(f) : log[i].ev = "dialog"}
HelperCalls(f)   == {i \in Since(f) : log[i].ev \in {"_create_reference", "_do_import"}}
Clicks(f)        == {i \in Since(f) : log[i].ev = "clickedButton"}
Accepted(f)      == \E i \in Clicks(f) : log[i].arg.clicked = "accept"

\* C6: when the path of a reference or import action is found missing, the
\* run ends there with the file-not-found error, nothing catches it, and
\* the invocation has issued no host command.
C6_MissingFileRaisesBeforeAnyHostCommand ==
    \A i \in 1..Len(log) :
        (log[i].ev = "os.path.exists" /\ ~ log[i].arg.exists) =>
            /\ i = Len(log)
            /\ status = "raised"
            /\ err = "File not found on disk"
            /\ ~ ENABLED ExecNext
            /\ stack # <<>>
            /\ ~ IsGroupRecord(Top)
            /\ Top.name \in {"reference", "import"}
            /\ log[i].depth = Len(stack)
            /\ HostCommands(Top) = {}

\* C6 witness: a top-level reference of a deprecated file, confirmed in the
\* dialog, ended with the file-not-found error.
C6_Witness ==
    /\ status = "raised"
    /\ Len(stack) = 1
    /\ Top.name = "reference"
    /\ Accepted(Top)
    /\ log[Len(log)].ev = "os.path.exists"

\* C7: for reference or import on a record that is not a group, the helper
\* is called exactly when the record is not deprecated or the user clicked
\* the accept button; the dialog is shown once for a deprecated record and
\* never otherwise, and before the helper and any host command.
C7_DialogGatesLoad ==
    (stack # <<>> /\ ~ IsGroupRecord(Top) /\ Top.name \in {"reference", "import"}) =>
        LET decided == Top.pc \notin {"start", "dispatch", "dialog"}
        IN  /\ Cardinality(Dialogs(Top)) <= 1
            /\ Cardinality(Clicks(Top)) <= Cardinality(Dialogs(Top))
            /\ Top.pc = "dialog" => (Cardinality(Dialogs(Top)) = 1 /\ Clicks(Top) = {})
            /\ ~ Deprecated(Top) => Dialogs(Top) = {}
            /\ (decided /\ Deprecated(Top)) => Cardinality(Dialogs(Top)) = 1
            /\ HelperCalls(Top) # {} => (~ Deprecated(Top) \/ Accepted(Top))
            /\ (decided /\ (~ Deprecated(Top) \/ Accepted(Top))) =>
                  /\ Cardinality(HelperCalls(Top)) = 1
                  /\ \A i \in HelperCalls(Top) :
                        log[i].ev = IF Top.name = "reference"
                                    THEN "_create_reference" ELSE "_do_import"
            /\ HostCommands(Top) # {} => HelperCalls(Top) # {}
            /\ \A i \in Dialogs(Top) : \A j \in HelperCalls(Top) \cup HostCommands(Top) : i < j

\* C7 witness: one invocation imported a deprecated file after the user
\* accepted, and it was reached through a group.
C7_Witness ==
    /\ stack # <<>>
    /\ Len(stack) = 2
    /\ Top.ran = "_do_import"
    /\ Deprecated(Top)
    /\ Accepted(Top)

\* C7 witness: the user cancelled and the invocation returned without
\* calling the helper.
C7_WitnessCancelled ==
    /\ stack # <<>>
    /\ Top.pc = "return"
    /\ Top.name = "reference"
    /\ Deprecated(Top)
    /\ Dialogs(Top) # {}
    /\ HelperCalls(Top) = {}

\* the invocations a group's invocation at depth k made itself, in order
ChildCalls(k) ==
    LET IsChildCall(e) == e.ev = "execute_action" /\ e.depth = k + 1
    IN  SelectSeq(SubSeq(log, stack[k].start + 1, Len(log)), IsChildCall)

\* the records a group's invocation at depth k fetched for its children, in
\* order
ChildFetches(k) ==
    LET IsChildFetch(e) == /\ e.ev = "find_one"
                           /\ e.depth = k
                           /\ e.arg.fields # {"sg_children"}
    IN  SelectSeq(SubSeq(log, stack[k].start + 1, Len(log)), IsChildFetch)

\* C8: an invocation on a group record fetches the group's children and
\* calls execute_action with the same name and params once per child, in
\* the order of sg_children, each child completing (nested groups
\* included) before the next is fetched; for the group itself the only
\* external calls are tracking-service queries: no path is resolved, no
\* dialog shown, no host command issued.
C8_GroupRecursesOverChildrenInOrder ==
    \A k \in 1..Len(stack) :
        IsGroupRecord(stack[k]) =>
            LET g        == stack[k]
                children == db[g.data["id"]]["sg_children"]
                fetched  == ChildFetches(k)
                calls    == ChildCalls(k)
                own      == {i \in Since(g) : log[i].depth = k}
            IN  /\ g.pc \in {"start", "loop", "return"}
                /\ \A i \in own : log[i].ev = "find_one"
                /\ g.pc = "start" => own = {}
                /\ g.pc # "start" =>
                      /\ log[g.start + 1].ev = "find_one"
                      /\ log[g.start + 1].depth = k
                      /\ log[g.start + 1].arg.id = g.data["id"]
                      /\ log[g.start + 1].arg.fields = {"sg_children"}
                      /\ log[g.start + 1].arg.result["sg_children"] = children
                      /\ Len(calls) = Len(children) - Len(g.children)
                      /\ \A i \in 1..Len(calls) :
                            /\ calls[i].arg.name = g.name
                            /\ calls[i].arg.params = g.params
                            /\ calls[i].arg.data["id"] = children[i]["id"]
                            /\ DOMAIN calls[i].arg.data = DOMAIN g.data
                            /\ \A f \in DOMAIN g.data \ {"sg_status_list"} :
                                  calls[i].arg.data[f] = db[children[i]["id"]][f]
                            /\ calls[i].arg.data = fetched[i].arg.result
                            /\ fetched[i].arg.id = children[i]["id"]
                /\ g.pc = "return" => Len(calls) = Len(children)
                /\ k < Len(stack) =>
                      /\ g.pc = "loop"
                      /\ stack[k + 1].data = calls[Len(calls)].arg.data

\* C8 witness: a group whose type is spelled "Group" has called
\* execute_action for its first child, a file, which finished, and then for
\* its second child.
C8_Witness ==
    /\ Len(stack) >= 2
    /\ stack[1].data["published_file_type"]["name"] = <<"G","r","o","u","p">>
    /\ Len(db[1]["sg_children"]) = 2
    /\ Len(ChildCalls(1)) = 2
    /\ ~ IsGroupRecord([data |-> ChildCalls(1)[1].arg.data])
    /\ ChildCalls(1)[1].arg.data["id"] # ChildCalls(1)[2].arg.data["id"]

\* some group is being executed inside its own execution
Reentered ==
    \E j, k \in 1..Len(stack) :
        /\ j < k
        /\ stack[j].data["id"] = stack[k].data["id"]
        /\ stack[j].name = stack[k].name
        /\ stack[j].params = stack[k].params

\* the interpreter gives up only on a run that re-entered a group
OverflowOnlyOnReentry == status = "overflow" => Reentered

\* C9: execute_action returns or raises: a run that has done neither can
\* still take a step that leads there, it never runs out of stack.
C9_Terminates ==
    status \in {"returned", "raised"} \/ ENABLED ExecNext

\* the shader assignments logged since invocation f was entered
Assignments(f) == {i \in HostCommands(f) : log[i].arg = "hyperShade"}

\* C10: when _create_reference has returned the reference is loaded and
\* locked; every shader assignment is made with the reference unlocked and
\* loaded; and between two matches, and after the last, the reference is
\* locked and loaded again.
C10_ReferenceLockedAroundHookups ==
    /\ (stack # <<>> /\ Top.ran = "_create_reference") =>
          (host.loaded /\ host.locked)
    /\ (Running("hookup") /\ hk.body # <<>> /\ Head(hk.body) \in {"select", "hyperShade"}) =>
          (host.loaded /\ ~ host.locked)
    /\ (Running("hookup") /\ hk.body = <<>>) =>
          (host.loaded /\ host.locked)
    /\ \A i \in 2..Len(log) :
          (log[i].ev = "cmds" /\ log[i].arg = "hyperShade") =>
              (i + 3 <= Len(log) =>
                  /\ log[i + 1].arg = "file(unloadReference)"
                  /\ log[i + 2].arg = "setAttr(locked,True)"
                  /\ log[i + 3].arg = "file(loadReference)")

\* C10 witness: _create_reference has returned after three shader
\* assignments.
C10_Witness ==
    /\ stack # <<>>
    /\ Top.ran = "_create_reference"
    /\ Cardinality(Assignments(Top)) = 3
    /\ host.loaded /\ host.locked

\* C10 witness: _create_reference has returned without any assignment.
C10_WitnessNoMatch ==
    /\ stack # <<>>
    /\ Top.ran = "_create_reference"
    /\ Assignments(Top) = {}

====
